---------------------------- MODULE Spec2Model ----------------------------
(***************************************************************************)
(* Model of the stock-exchange ETL pipeline: the warehouse tables and the  *)
(* staging->enterprise merge (load.py), the pipeline driver (main2.py),    *)
(* the normaliser / return calculator (transform.py) and the aggregator    *)
(* (aggregated.py).                                                        *)
(***************************************************************************)
EXTENDS Integers, Sequences, FiniteSets, TLC

VARIABLES
    stg,        \* stg.stock_data: its rows in insertion (heap) order; the staging
                \* RecordID is read by no statement and is left out
    edw,        \* edw.stock_data: set of rows, each with its RecordID
    edwSeq,     \* last value handed out by the enterprise RecordID sequence
    extracted,  \* the raw frame handed to transform_data
    transformed,\* the frame transform_data returned (the input of aggregate_data)
    aggregated, \* the frame aggregate_data returned
    pc,         \* the position of the running function
    log,        \* what main has logged so far, in order
    files,      \* the prefixes of the files save_with_timestamp has written
    last        \* the last warehouse operation: op, ok (its outcome), edw0 (the
                \* enterprise table before it), twice (a successful merge that
                \* directly follows a successful merge)

whVars == <<stg, edw, edwSeq, last>>
frameVars == <<extracted, transformed, aggregated>>
runVars == <<pc, log, files>>
vars ==
    <<stg, edw, edwSeq, last, extracted, transformed, aggregated, pc, log, files>>

----------------------------------------------------------------------------
(* Bounds of the warehouse model. *)

MaxDate == 1
MaxVal == 1
MaxStg == 2
MaxInitEdw == 1
MaxRecordID == 6

WhSymbols == {"AAPL", "MSFT"}
WhDates == 1..MaxDate
Keys == WhSymbols \X WhDates

(* A candidate row of the warehouse schema; v = -1 breaks the CHECK (>= 0). *)
WRow(s, d, v) ==
    [symbol |-> s, date |-> d, open |-> v, high |-> v + 1, low |-> v,
     close |-> v + 1, volume |-> 10 * v]

Candidates == {WRow(k[1], k[2], v) : k \in Keys, v \in (-1)..MaxVal}

KeyOf(r) == <<r.symbol, r.date>>

ValsOf(r) ==
    [open |-> r.open, high |-> r.high, low |-> r.low, close |-> r.close,
     volume |-> r.volume]

WithId(r, id) ==
    [RecordID |-> id, symbol |-> r.symbol, date |-> r.date, open |-> r.open,
     high |-> r.high, low |-> r.low, close |-> r.close, volume |-> r.volume]

Range(seq) == {seq[i] : i \in 1..Len(seq)}

(* CHECK (open >= 0), ... CHECK (volume >= 0) of either table. *)
ChecksOk(r) ==
    r.open >= 0 /\ r.high >= 0 /\ r.low >= 0 /\ r.close >= 0 /\ r.volume >= 0

(* UNIQUE (symbol, date) over a sequence of rows. *)
UniqueKeys(seq) ==
    \A i, j \in 1..Len(seq) : KeyOf(seq[i]) = KeyOf(seq[j]) => i = j



(* Faulty variants of the upsert of one row: a plain INSERT, ON CONFLICT DO    *)
(* NOTHING, and delete-then-insert (the row gets a fresh RecordID).            *)
UpsertRowPlainInsert(e, r, id) == e \cup {WithId(r, id)}

UpsertRowDoNothing(e, r, id) ==
    IF \E x \in e : KeyOf(x) = KeyOf(r) THEN e ELSE e \cup {WithId(r, id)}

UpsertRowReplace(e, r, id) ==
    {x \in e : KeyOf(x) # KeyOf(r)} \cup {WithId(r, id)}

(* INSERT ... ON CONFLICT (symbol, date) DO UPDATE SET ... = EXCLUDED.... for *)
(* one proposed row r; id is the nextval() drawn for it, used only when the   *)
(* row is inserted. The conflicting row keeps its RecordID.                   *)
UpsertRow(e, r, id) ==
    IF \E x \in e : KeyOf(x) = KeyOf(r)
    THEN {IF KeyOf(x) = KeyOf(r) THEN WithId(r, x.RecordID) ELSE x : x \in e}
    ELSE e \cup {WithId(r, id)}

(* The INSERT ... SELECT over the staging rows 1..n, in heap order; nextval() *)
(* is drawn for every proposed row, conflicting or not.                       *)
RECURSIVE UpsertAll(_, _, _, _)
UpsertAll(e, seq, base, n) ==
    IF n = 0 THEN e
    ELSE UpsertRow(UpsertAll(e, seq, base, n - 1), seq[n], base + n)

(* PostgreSQL refuses an ON CONFLICT DO UPDATE that proposes one key twice. *)
MergeRaises(seq) == ~UniqueKeys(seq)

(* data.to_sql(..., if_exists='append'): one transaction for the whole batch; *)
(* it raises when a row breaks a CHECK or the UNIQUE (symbol, date).          *)
StagingAccepts(seq, batch) ==
    /\ \A i \in 1..Len(batch) : ChecksOk(batch[i])
    /\ UniqueKeys(seq \o batch)

(* The batches that still fit the staging bound. *)
Batches(room) == UNION {[1..n -> Candidates] : n \in 1..room}

(* load_data_into_staging(data, table_name, engine) *)
LoadDataIntoStaging(batch) ==
    /\ IF StagingAccepts(stg, batch)
       THEN /\ stg' = stg \o batch
            /\ last' = [op |-> "load", ok |-> TRUE, edw0 |-> edw, twice |-> FALSE]
       ELSE /\ stg' = stg
            /\ last' = [op |-> "load", ok |-> FALSE, edw0 |-> edw, twice |-> FALSE]
    /\ UNCHANGED <<edw, edwSeq>>

(* move_data_to_edw(): connect, execute the merge, commit. dbOk = FALSE is a  *)
(* failure of psycopg2.connect or of the statement: the except branch logs it *)
(* and returns normally, and closing the connection commits nothing.          *)
MoveDataToEdw(dbOk) ==
    /\ edwSeq + Len(stg) <= MaxRecordID
    /\ IF dbOk /\ ~MergeRaises(stg)
       THEN /\ edw' = UpsertAll(edw, stg, edwSeq, Len(stg))
            /\ edwSeq' = edwSeq + Len(stg)
            /\ last' = [op |-> "move", ok |-> TRUE, edw0 |-> edw,
                         twice |-> last.op = "move" /\ last.ok]
       ELSE /\ edw' = edw
            /\ edwSeq' = edwSeq
            /\ last' = [op |-> "move", ok |-> FALSE, edw0 |-> edw, twice |-> FALSE]
    /\ UNCHANGED stg

(* Enterprise tables that create_schemas_and_tables (CREATE ... IF NOT EXISTS) *)
(* may find: any rows that satisfy the table's constraints.                    *)
InitEdw(ks, vs) == {WithId(WRow(ks[i][1], ks[i][2], vs[i]), i) : i \in DOMAIN ks}

InitEdwSets ==
    UNION {{InitEdw(ks, vs) : ks \in {f \in [1..n -> Keys] :
                                        \A i, j \in 1..n : f[i] = f[j] => i = j},
                              vs \in [1..n -> 0..MaxVal]} : n \in 0..MaxInitEdw}



----------------------------------------------------------------------------
(* Data frames: transform.py.                                               *)

MaxRows == 3

(* A raw cell is text: ok says whether it parses, v is the value it parses  *)
(* to. A float cell is a number or NaN.                                     *)
RawNum(n) == [ok |-> TRUE, v |-> n]
RawBad == [ok |-> FALSE, v |-> 0]
Num(n) == [nan |-> FALSE, v |-> n]
NaN == [nan |-> TRUE, v |-> 0]

(* A DailyReturn cell: NaN, +inf, or the fraction n / d with d > 0. *)
NaNRet == [k |-> "nan", n |-> 0, d |-> 1]
InfRet == [k |-> "inf", n |-> 0, d |-> 1]
Rat(n, d) == [k |-> "num", n |-> n, d |-> d]

ExpectedColumns ==
    {"Date", "OpenPrice", "High", "Low", "ClosePrice", "Volume", "Symbol"}

(* pd.DataFrame() *)
EmptyFrame == [cols |-> {}, rows |-> <<>>]

(* DataFrame.empty: some axis has length 0. *)
IsEmpty(f) == f.cols = {} \/ Len(f.rows) = 0

(* pd.to_numeric(..., errors="coerce") *)
ToNumeric(raw) == IF raw.ok THEN Num(raw.v) ELSE NaN

(* str.upper() on the symbols of the model. *)
Upper(s) ==
    CASE s = "aapl" -> "AAPL"
      [] s = "msft" -> "MSFT"
      [] OTHER -> s

(* pd.to_datetime(df["Date"]) raises when a date does not parse. *)
DatesParse(f) == \A i \in 1..Len(f.rows) : f.rows[i].Date.ok

(* The column conversions of one row; a date is the number of its day, which *)
(* orders as its "%Y-%m-%d" text does.                                       *)
NormRow(r) ==
    [Symbol |-> Upper(r.Symbol), Date |-> r.Date.v,
     OpenPrice |-> ToNumeric(r.OpenPrice), High |-> ToNumeric(r.High),
     Low |-> ToNumeric(r.Low), ClosePrice |-> ToNumeric(r.ClosePrice),
     Volume |-> ToNumeric(r.Volume)]

(* df.sort_values(by=["Date"]): the default quicksort is not stable, so rows *)
(* of equal date may come out in any order.                                  *)
SortedPerms(rows) ==
    {p \in [1..Len(rows) -> 1..Len(rows)] :
        /\ \A i, j \in 1..Len(rows) : p[i] = p[j] => i = j
        /\ \A i, j \in 1..Len(rows) :
              i < j => rows[p[i]].Date <= rows[p[j]].Date}

Permute(rows, p) == [i \in 1..Len(rows) |-> rows[p[i]]]

(* The row before row i in i's own Symbol group, 0 when i opens its group. *)
PrevInGroup(rows, i) ==
    LET before == {j \in 1..(i - 1) : rows[j].Symbol = rows[i].Symbol}
    IN  IF before = {} THEN 0 ELSE CHOOSE j \in before : \A m \in before : m <= j

(* The close pct_change divides: with pad (fill_method="ffill", the default  *)
(* before pandas 3) a NaN close takes the last close of its group before it. *)
RECURSIVE FilledClose(_, _, _)
FilledClose(rows, i, pad) ==
    IF pad /\ rows[i].ClosePrice.nan /\ PrevInGroup(rows, i) # 0
    THEN FilledClose(rows, PrevInGroup(rows, i), pad)
    ELSE rows[i].ClosePrice

(* c / p - 1 in floating point. *)
Change(c, p) ==
    IF c.nan \/ p.nan THEN NaNRet
    ELSE IF p.v = 0 THEN (IF c.v = 0 THEN NaNRet ELSE InfRet)
    ELSE Rat(c.v - p.v, p.v)

(* A faulty variant: pct_change over the whole frame, not per symbol. *)
PctChangeUngrouped(rows, i, pad) ==
    IF i = 1 THEN NaNRet
    ELSE Change(rows[i].ClosePrice, rows[i - 1].ClosePrice)

(* df.groupby("Symbol")["ClosePrice"].pct_change() for row i. *)
PctChange(rows, i, pad) ==
    IF PrevInGroup(rows, i) = 0 THEN NaNRet
    ELSE Change(FilledClose(rows, i, pad),
                FilledClose(rows, PrevInGroup(rows, i), pad))

WithReturns(rows, pad) ==
    [i \in 1..Len(rows) |->
        [Symbol |-> rows[i].Symbol, Date |-> rows[i].Date,
         OpenPrice |-> rows[i].OpenPrice, High |-> rows[i].High,
         Low |-> rows[i].Low, ClosePrice |-> rows[i].ClosePrice,
         Volume |-> rows[i].Volume, DailyReturn |-> PctChange(rows, i, pad)]]

(* A faulty variant: no check of the required columns. *)
TransformOutcomesNoColumnCheck(f) ==
    IF ~DatesParse(f) THEN {EmptyFrame}
    ELSE LET norm == [i \in 1..Len(f.rows) |-> NormRow(f.rows[i])]
         IN  {[cols |-> f.cols \cup {"DailyReturn"},
               rows |-> WithReturns(Permute(norm, p), pad)] :
                 p \in SortedPerms(norm), pad \in BOOLEAN}

(* transform_data(df): the frames it can return. A missing column returns    *)
(* the empty frame; so does any exception (an unparsable date).              *)
TransformOutcomes(f) ==
    IF ~(ExpectedColumns \subseteq f.cols) THEN {EmptyFrame}
    ELSE IF ~DatesParse(f) THEN {EmptyFrame}
    ELSE LET norm == [i \in 1..Len(f.rows) |-> NormRow(f.rows[i])]
         IN  {[cols |-> f.cols \cup {"DailyReturn"},
               rows |-> WithReturns(Permute(norm, p), pad)] :
                 p \in SortedPerms(norm), pad \in BOOLEAN}

(* The raw rows the transform is tried on: two spellings of one symbol with *)
(* two closes, a second symbol, and rows with a zero close, an unparsable   *)
(* close, an unparsable volume and an unparsable date.                      *)
RawSymbols == {"AAPL", "aapl", "MSFT"}
RawDates == {RawNum(1), RawNum(2)}
RawCloses == {RawNum(1), RawNum(2)}

RawRow(s, d, c, v) ==
    [Symbol |-> s, Date |-> d, OpenPrice |-> c, High |-> c, Low |-> c,
     ClosePrice |-> c, Volume |-> v]

RawRows ==
    {RawRow(s, d, c, RawNum(10)) :
        s \in RawSymbols \ {"MSFT"}, d \in RawDates, c \in RawCloses}
    \cup {RawRow("MSFT", d, RawNum(2), RawNum(10)) : d \in RawDates}
    \cup {RawRow("AAPL", d, c, RawNum(10)) : d \in RawDates, c \in {RawNum(0), RawBad}}
    \cup {RawRow("AAPL", RawBad, RawNum(1), RawNum(10)),
          RawRow("AAPL", RawNum(1), RawNum(1), RawBad)}

(* A frame of n rows; one that lacks the Volume column has a single row. *)
RawFrames(n) ==
    {[cols |-> ExpectedColumns, rows |-> rs] : rs \in [1..n -> RawRows]}
    \cup (IF n = 1
          THEN {[cols |-> ExpectedColumns \ {"Volume"}, rows |-> rs] :
                   rs \in [1..n -> RawRows]}
          ELSE {})

----------------------------------------------------------------------------
(* Aggregation: aggregated.py.                                              *)

Window5 == 5
Window10 == 10

RECURSIVE Gcd(_, _)
Gcd(a, b) == IF b = 0 THEN a ELSE Gcd(b, a % b)

Abs(n) == IF n < 0 THEN -n ELSE n

(* Fractions in lowest terms, the denominator positive. *)
Norm(n, d) ==
    LET g == Gcd(Abs(n), d) IN Rat(n \div g, d \div g)

RAdd(a, b) == Norm(a.n * b.d + b.n * a.d, a.d * b.d)
RSub(a, b) == Norm(a.n * b.d - b.n * a.d, a.d * b.d)
RMul(a, b) == Norm(a.n * b.n, a.d * b.d)
RDivInt(a, m) == Norm(a.n, a.d * m)

RECURSIVE RSum(_, _)
RSum(xs, n) == IF n = 0 THEN Rat(0, 1) ELSE RAdd(RSum(xs, n - 1), xs[n])

(* columns.str.lower() on the column names of the model. *)
Lower(c) ==
    CASE c = "Date" -> "date"
      [] c = "OpenPrice" -> "openprice"
      [] c = "High" -> "high"
      [] c = "Low" -> "low"
      [] c = "ClosePrice" -> "closeprice"
      [] c = "Volume" -> "volume"
      [] c = "Symbol" -> "symbol"
      [] c = "DailyReturn" -> "dailyreturn"
      [] OTHER -> c

RequiredColumns == {"date", "closeprice", "volume", "dailyreturn", "symbol"}

(* groupby('symbol') yields its groups in key order. *)
SymbolOrder == <<"AAPL", "MSFT">>

(* The rows of one symbol, in frame order. *)
RECURSIVE GroupRows(_, _, _)
GroupRows(rows, sym, n) ==
    IF n = 0 THEN <<>>
    ELSE IF rows[n].Symbol = sym
         THEN Append(GroupRows(rows, sym, n - 1), rows[n])
         ELSE GroupRows(rows, sym, n - 1)

(* fillna(0) on a dailyreturn cell. *)
FillNa(r) == IF r.k = "nan" THEN Rat(0, 1) ELSE r

(* The dailyreturn column of a group after transformed_data['dailyreturn'].fillna(0). *)
Returns(g) == [i \in 1..Len(g) |-> FillNa(g[i].DailyReturn)]

AnyInf(xs) == \E i \in 1..Len(xs) : xs[i].k = "inf"

(* ('dailyreturn', 'mean') *)
MeanReturn(xs) ==
    IF AnyInf(xs) THEN InfRet ELSE RDivInt(RSum(xs, Len(xs)), Len(xs))

(* A faulty variant: the population standard deviation (ddof = 0). *)
StdReturnPopulation(xs) ==
    IF Len(xs) < 1 \/ AnyInf(xs) THEN NaNRet
    ELSE LET m == MeanReturn(xs)
             sq == [i \in 1..Len(xs) |-> RMul(RSub(xs[i], m), RSub(xs[i], m))]
         IN  RDivInt(RSum(sq, Len(sq)), Len(xs))

(* ('dailyreturn', 'std'): the sample standard deviation (ddof = 1), given   *)
(* by its square; NaN for fewer than 2 values and when a value is infinite.  *)
StdReturn(xs) ==
    IF Len(xs) < 2 \/ AnyInf(xs) THEN NaNRet
    ELSE LET m == MeanReturn(xs)
             sq == [i \in 1..Len(xs) |-> RMul(RSub(xs[i], m), RSub(xs[i], m))]
         IN  RDivInt(RSum(sq, Len(sq)), Len(xs) - 1)

(* The mean of the first w closes of the group instead of the last w: the    *)
(* rolling mean read at position w - 1 instead of at the last position.      *)
MovingAvgFirstRows(g, w) ==
    IF Len(g) < w THEN NaNRet
    ELSE IF \E i \in 1..w : g[i].ClosePrice.nan THEN NaNRet
    ELSE RDivInt(RSum([i \in 1..w |-> Rat(g[i].ClosePrice.v, 1)], w), w)

(* group['closeprice'].rolling(window=w).mean().iloc[-1] if len(group) >= w  *)
(* else None: the mean of the last w closes in frame order, NaN when one of  *)
(* them is NaN.                                                              *)
MovingAvg(g, w) ==
    IF Len(g) < w THEN NaNRet
    ELSE IF \E i \in (Len(g) - w + 1)..Len(g) : g[i].ClosePrice.nan THEN NaNRet
    ELSE RDivInt(RSum([i \in 1..w |-> Rat(g[Len(g) - w + i].ClosePrice.v, 1)], w), w)

(* The closes / volumes of a group that are numbers (mean and sum skip NaN). *)
RECURSIVE NumCells(_, _)
NumCells(cells, n) ==
    IF n = 0 THEN <<>>
    ELSE IF cells[n].nan THEN NumCells(cells, n - 1)
         ELSE Append(NumCells(cells, n - 1), Rat(cells[n].v, 1))

MeanClose(g) ==
    LET cs == NumCells([i \in 1..Len(g) |-> g[i].ClosePrice], Len(g))
    IN  IF Len(cs) = 0 THEN NaNRet ELSE RDivInt(RSum(cs, Len(cs)), Len(cs))

TotalVolume(g) ==
    LET vs == NumCells([i \in 1..Len(g) |-> g[i].Volume], Len(g))
    IN  RSum(vs, Len(vs))

MaxDateOf(g) ==
    CHOOSE d \in {g[i].Date : i \in 1..Len(g)} : \A i \in 1..Len(g) : g[i].Date <= d

Summary(sym, g) ==
    [symbol |-> sym,
     averagedailyprice |-> MeanClose(g),
     totalvolume |-> TotalVolume(g),
     dailyreturn |-> MeanReturn(Returns(g)),
     volatilityindex |-> StdReturn(Returns(g)),
     movingavg5day |-> MovingAvg(g, Window5),
     movingavg10day |-> MovingAvg(g, Window10),
     maxdate |-> MaxDateOf(g)]

RECURSIVE Summaries(_, _)
Summaries(rows, n) ==
    IF n = 0 THEN <<>>
    ELSE LET g == GroupRows(rows, SymbolOrder[n], Len(rows))
         IN  IF Len(g) = 0 THEN Summaries(rows, n - 1)
             ELSE Append(Summaries(rows, n - 1), Summary(SymbolOrder[n], g))

AggregatedColumns ==
    {"symbol", "averagedailyprice", "totalvolume", "dailyreturn",
     "volatilityindex", "movingavg5day", "movingavg10day", "maxdate"}

(* aggregate_data(transformed_data); failed is an exception raised inside    *)
(* the try block, which the except branch turns into the empty frame, as it  *)
(* does the ValueError of a missing column.                                  *)
AggregateData(f, failed) ==
    IF failed \/ ~(RequiredColumns \subseteq {Lower(c) : c \in f.cols})
    THEN EmptyFrame
    ELSE [cols |-> AggregatedColumns,
          rows |-> Summaries(f.rows, Len(SymbolOrder))]

(* The frames the aggregation is tried on. *)
AggReturns == {NaNRet, InfRet, Rat(-1, 2), Rat(0, 1), Rat(1, 1)}

AggRow(s, d, c, r) ==
    [Symbol |-> s, Date |-> d, OpenPrice |-> Num(c), High |-> Num(c),
     Low |-> Num(c), ClosePrice |-> Num(c), Volume |-> Num(10),
     DailyReturn |-> r]

AggRows ==
    {AggRow(s, d, d, r) : s \in {"AAPL", "MSFT"}, d \in {1, 2}, r \in AggReturns}

TransformedColumns == ExpectedColumns \cup {"DailyReturn"}

AggFrames(n) ==
    {[cols |-> TransformedColumns, rows |-> rs] : rs \in [1..n -> AggRows]}
    \cup (IF n = 1
          THEN {[cols |-> ExpectedColumns, rows |-> rs] : rs \in [1..n -> AggRows]}
          ELSE {})

----------------------------------------------------------------------------
(* The pipeline driver: main2.py.                                           *)

(* What fetch_stock_data can return for a symbol: None (<<>> here), or the  *)
(* frame of one day of the time series.                                     *)
FetchedRow(s, d, v) ==
    [Symbol |-> s, Date |-> RawNum(d), OpenPrice |-> RawNum(v),
     High |-> RawNum(v + 1), Low |-> RawNum(v), ClosePrice |-> RawNum(v + 1),
     Volume |-> RawNum(10 * v)]

Fetched(s) ==
    {<<>>} \cup {<<FetchedRow(s, d, v)>> : d \in WhDates, v \in 0..MaxVal}

(* extract_data(): pd.concat of the frames fetched, in SYMBOLS order; the    *)
(* columns are those the API response carried.                               *)
ExtractOutcomes ==
    {IF Len(a \o m) = 0 THEN EmptyFrame ELSE [cols |-> cs, rows |-> a \o m] :
        a \in Fetched("AAPL"), m \in Fetched("MSFT"),
        cs \in {ExpectedColumns, ExpectedColumns \ {"Volume"}}}

(* The warehouse row a transformed row stands for. *)
WRowOf(t) ==
    [symbol |-> t.Symbol, date |-> t.Date, open |-> t.OpenPrice.v,
     high |-> t.High.v, low |-> t.Low.v, close |-> t.ClosePrice.v,
     volume |-> t.Volume.v]

(* A faulty sequencing of main: aggregation before the load and the merge. *)
StageAfterAggregateFirst(stage) ==
    CASE stage = "start" -> "extract"
      [] stage = "extract" -> "save_extracted"
      [] stage = "save_extracted" -> "transform"
      [] stage = "transform" -> "save_transformed"
      [] stage = "save_transformed" -> "aggregate"
      [] stage = "aggregate" -> "save_aggregated"
      [] stage = "save_aggregated" -> "load"
      [] stage = "load" -> "move"
      [] stage = "move" -> "report"
      [] stage = "report" -> "finish"
      [] OTHER -> "done"

(* The statement that follows a step of main when the step goes on. *)
StageAfter(stage) ==
    CASE stage = "start" -> "extract"
      [] stage = "extract" -> "save_extracted"
      [] stage = "save_extracted" -> "transform"
      [] stage = "transform" -> "save_transformed"
      [] stage = "save_transformed" -> "load"
      [] stage = "load" -> "move"
      [] stage = "move" -> "aggregate"
      [] stage = "aggregate" -> "save_aggregated"
      [] stage = "save_aggregated" -> "report"
      [] stage = "report" -> "finish"
      [] OTHER -> "done"

(* main(): "ETL process started", create_schemas_and_tables() (CREATE ... IF *)
(* NOT EXISTS: the rows of existing tables stay), ensure_directory_exists.   *)
MainStart ==
    /\ pc = "start"
    /\ log' = log \o <<"started", "schemas">>
    /\ pc' = StageAfter("start")
    /\ UNCHANGED <<whVars, frameVars, files>>

(* extracted_data = extract_data(); if not extracted_data.empty: ... else    *)
(* "Extraction failed. ETL process terminated."                              *)
MainExtract ==
    /\ pc = "extract"
    /\ \E f \in ExtractOutcomes :
          /\ extracted' = f
          /\ IF IsEmpty(f)
             THEN /\ log' = log \o <<"extract", "extraction_failed">>
                  /\ pc' = "finish"
             ELSE /\ log' = Append(log, "extract")
                  /\ pc' = StageAfter("extract")
    /\ UNCHANGED <<whVars, transformed, aggregated, files>>

(* save_with_timestamp(df, dataset, prefix): writes the file, or logs the    *)
(* error and returns None.                                                   *)
SaveWithTimestamp(prefix, written) ==
    files' = IF written THEN files \cup {prefix} ELSE files

MainSaveExtracted ==
    /\ pc = "save_extracted"
    /\ \E written \in BOOLEAN : SaveWithTimestamp("extracted_stock_data", written)
    /\ pc' = StageAfter("save_extracted")
    /\ UNCHANGED <<whVars, frameVars, log>>

(* transformed_data = transform_data(extracted_data); if not                 *)
(* transformed_data.empty: ... else "Transformation failed. ..."             *)
MainTransform ==
    /\ pc = "transform"
    /\ \E t \in TransformOutcomes(extracted) :
          /\ transformed' = t
          /\ IF IsEmpty(t)
             THEN /\ log' = log \o <<"transform", "transformation_failed">>
                  /\ pc' = "finish"
             ELSE /\ log' = Append(log, "transform")
                  /\ pc' = StageAfter("transform")
    /\ UNCHANGED <<whVars, extracted, aggregated, files>>

MainSaveTransformed ==
    /\ pc = "save_transformed"
    /\ \E written \in BOOLEAN : SaveWithTimestamp("transformed_data", written)
    /\ pc' = StageAfter("save_transformed")
    /\ UNCHANGED <<whVars, frameVars, log>>

(* load_data_to_postgres(transformed_file): raises when the file is missing  *)
(* (the exception leaves main), and otherwise sets conn and cursor to None   *)
(* and returns: it never calls load_data_into_staging.                       *)
MainLoad ==
    /\ pc = "load"
    /\ log' = Append(log, "load")
    /\ pc' = IF "transformed_data" \in files THEN StageAfter("load") ELSE "crashed"
    /\ UNCHANGED <<whVars, frameVars, files>>

(* move_data_to_edw(): its except branch logs the error and returns. *)
MainMove ==
    /\ pc = "move"
    /\ \E dbOk \in BOOLEAN :
          /\ MoveDataToEdw(dbOk)
          /\ log' = IF dbOk /\ ~MergeRaises(stg)
                    THEN Append(log, "move")
                    ELSE log \o <<"move", "merge_error">>
    /\ pc' = StageAfter("move")
    /\ UNCHANGED <<frameVars, files>>

(* aggregated_data = aggregate_data(transformed_data); if not                *)
(* aggregated_data.empty: ... else "Aggregation failed. ..."                 *)
MainAggregate ==
    /\ pc = "aggregate"
    /\ \E failed \in BOOLEAN :
          /\ aggregated' = AggregateData(transformed, failed)
          /\ IF IsEmpty(aggregated')
             THEN /\ log' = log \o <<"aggregate", "aggregation_failed">>
                  /\ pc' = StageAfter("save_aggregated")
             ELSE /\ log' = Append(log, "aggregate")
                  /\ pc' = StageAfter("aggregate")
    /\ UNCHANGED <<whVars, extracted, transformed, files>>

MainSaveAggregated ==
    /\ pc = "save_aggregated"
    /\ \E written \in BOOLEAN : SaveWithTimestamp("aggregated_data", written)
    /\ pc' = StageAfter("save_aggregated")
    /\ UNCHANGED <<whVars, frameVars, log>>

(* "ETL pipeline completed successfully." *)
MainReport ==
    /\ pc = "report"
    /\ log' = Append(log, "success")
    /\ pc' = StageAfter("report")
    /\ UNCHANGED <<whVars, frameVars, files>>

(* "ETL process completed" *)
MainFinish ==
    /\ pc = "finish"
    /\ log' = Append(log, "completed")
    /\ pc' = "done"
    /\ UNCHANGED <<whVars, frameVars, files>>

----------------------------------------------------------------------------
(* The specifications. *)

WhInit ==
    /\ extracted = EmptyFrame
    /\ transformed = EmptyFrame
    /\ aggregated = EmptyFrame
    /\ pc = "warehouse"
    /\ log = <<>>
    /\ files = {}
    /\ stg = <<>>
    /\ edw \in InitEdwSets
    /\ edwSeq = MaxInitEdw
    /\ last = [op |-> "init", ok |-> TRUE, edw0 |-> edw, twice |-> FALSE]

WhNext ==
    \/ \E batch \in Batches(MaxStg - Len(stg)) :
          LoadDataIntoStaging(batch) /\ UNCHANGED <<frameVars, runVars>>
    \/ \E dbOk \in BOOLEAN : MoveDataToEdw(dbOk) /\ UNCHANGED <<frameVars, runVars>>

SpecWarehouse == WhInit /\ [][WhNext]_vars

NoWarehouse ==
    /\ stg = <<>>
    /\ edw = {}
    /\ edwSeq = 0
    /\ last = [op |-> "init", ok |-> TRUE, edw0 |-> {}, twice |-> FALSE]

TrInit ==
    /\ NoWarehouse
    /\ \E n \in 1..MaxRows : extracted \in RawFrames(n)
    /\ transformed = EmptyFrame
    /\ aggregated = EmptyFrame
    /\ pc = "transform"
    /\ log = <<>>
    /\ files = {}

(* transform_data(df) *)
TransformData ==
    /\ pc = "transform"
    /\ transformed' \in TransformOutcomes(extracted)
    /\ pc' = "transformed"
    /\ UNCHANGED <<stg, edw, edwSeq, last, extracted, aggregated, log, files>>

TrNext == TransformData

SpecTransform == TrInit /\ [][TrNext]_vars

AggInit ==
    /\ NoWarehouse
    /\ extracted = EmptyFrame
    /\ \E n \in 1..MaxRows : transformed \in AggFrames(n)
    /\ aggregated = EmptyFrame
    /\ pc = "aggregate"
    /\ log = <<>>
    /\ files = {}

(* aggregate_data(transformed_data), as aggregated.main calls it on the      *)
(* frame it read.                                                            *)
Aggregate ==
    /\ pc = "aggregate"
    /\ \E failed \in BOOLEAN : aggregated' = AggregateData(transformed, failed)
    /\ pc' = "aggregated"
    /\ UNCHANGED <<stg, edw, edwSeq, last, extracted, transformed, log, files>>

AggNext == Aggregate

SpecAggregate == AggInit /\ [][AggNext]_vars

(* The frames the moving averages are tried on: one symbol's series of n     *)
(* days, day i closing at 1 or 2, at most one close missing (the first or    *)
(* the last day), handed over in date order, in reverse date order or with   *)
(* the latest day first, alone or followed by one row of another symbol.     *)
MaxMovRows == 11

MovRow(s, d, c) ==
    [Symbol |-> s, Date |-> d, OpenPrice |-> c, High |-> c, Low |-> c,
     ClosePrice |-> c, Volume |-> Num(10), DailyReturn |-> Rat(0, 1)]

MovOrders == {"sorted", "reversed", "latest_first"}

MovPlace(order, n, i) ==
    IF order = "sorted" THEN i
    ELSE IF order = "reversed" THEN n + 1 - i
    ELSE IF i = 1 THEN n ELSE i - 1

MovSeries(n, closes, missing, order) ==
    [i \in 1..n |->
        LET d == MovPlace(order, n, i)
        IN  MovRow("AAPL", d, IF d = missing THEN NaN ELSE Num(closes[d]))]

MovFrames(n) ==
    {[cols |-> TransformedColumns,
      rows |-> MovSeries(n, closes, missing, order) \o other] :
        closes \in [1..n -> {1, 2}], missing \in {0, 1, n},
        order \in MovOrders,
        other \in {<<>>, <<MovRow("MSFT", 1, Num(2))>>}}

MovInit ==
    /\ NoWarehouse
    /\ extracted = EmptyFrame
    /\ \E n \in 1..MaxMovRows : transformed \in MovFrames(n)
    /\ aggregated = EmptyFrame
    /\ pc = "aggregate"
    /\ log = <<>>
    /\ files = {}

SpecMoving == MovInit /\ [][AggNext]_vars

----------------------------------------------------------------------------
(* Two runs of move_data_to_edw at the same time: load.py.                  *)

(* Each run has its own connection, hence its own transaction: the one      *)
(* INSERT ... SELECT ... ON CONFLICT DO UPDATE, then commit. Here pc maps a *)
(* run to its transaction: at (start, exec, done, failed), order (the order *)
(* in which its SELECT returns the staging rows, which no ORDER BY fixes),  *)
(* i (the staging row it proposes next), id (the nextval() drawn for that   *)
(* row, 0 before the draw), keys (the keys whose row it has written and     *)
(* holds locked until it ends) and writes (its uncommitted row versions).   *)
Runs == {1, 2}

Orders(n) == {f \in [1..n -> 1..n] : \A i, j \in 1..n : f[i] = f[j] => i = j}

(* Staging tables the runs may find (UNIQUE (symbol, date), CHECK (>= 0)),  *)
(* and enterprise tables: empty or one row.                                 *)
ConcStagings ==
    UNION {{sq \in [1..n -> {WRow(sym, 1, v) : sym \in WhSymbols, v \in 0..MaxVal}] :
                UniqueKeys(sq)} : n \in 1..Cardinality(WhSymbols)}

ConcEdws ==
    {{}} \cup {{WithId(WRow(sym, 1, v), 1)} : sym \in WhSymbols, v \in 0..MaxVal}

Txn(at, order, i, id, keys, writes) ==
    [at |-> at, order |-> order, i |-> i, id |-> id, keys |-> keys,
     writes |-> writes]

ConcInit ==
    /\ extracted = EmptyFrame
    /\ transformed = EmptyFrame
    /\ aggregated = EmptyFrame
    /\ log = <<>>
    /\ files = {}
    /\ stg \in ConcStagings
    /\ edw \in ConcEdws
    /\ edwSeq = 1
    /\ last = [op |-> "init", ok |-> TRUE, edw0 |-> edw, twice |-> FALSE]
    /\ pc = [p \in Runs |-> Txn("start", <<>>, 1, 0, {}, {})]

(* The staging row run p proposes next. *)
Proposed(p) == stg[pc[p].order[pc[p].i]]

(* The row of key k is written by another transaction that has not ended:   *)
(* the insert or update of that key waits for it.                           *)
Blocked(p, k) ==
    \E q \in Runs \ {p} : pc[q].at = "exec" /\ k \in pc[q].keys

(* conn.commit() that keeps nothing of the transaction. *)
CommittedNothing(e, writes) == e

(* conn.commit(): the row versions of the transaction replace the committed *)
(* versions of the same rows.                                               *)
Committed(e, writes) ==
    {x \in e : \A w \in writes : w.RecordID # x.RecordID} \cup writes

(* The except branch: the error is logged, the connection is closed without *)
(* a commit and the function returns.                                       *)
RolledBack(p) ==
    /\ pc' = [pc EXCEPT ![p] = Txn("failed", pc[p].order, pc[p].i, 0, {}, {})]
    /\ log' = Append(log, "merge_error")

(* psycopg2.connect and cursor.execute: the statement starts. *)
Connect(p, dbOk, order) ==
    /\ pc[p].at = "start"
    /\ IF dbOk
       THEN /\ pc' = [pc EXCEPT ![p] = Txn("exec", order, 1, 0, {}, {})]
            /\ log' = log
       ELSE RolledBack(p)
    /\ UNCHANGED <<whVars, frameVars, files>>

(* The statement forms the next proposed row: nextval() for its RecordID,   *)
(* which no rollback gives back.                                            *)
NextVal(p) ==
    /\ pc[p].at = "exec"
    /\ pc[p].i <= Len(stg)
    /\ pc[p].id = 0
    /\ edwSeq' = edwSeq + 1
    /\ pc' = [pc EXCEPT ![p].id = edwSeq + 1]
    /\ UNCHANGED <<stg, edw, last, frameVars, log, files>>

(* The insert or update of the proposed row, once no other transaction      *)
(* holds its key; the committed rows decide the conflict.                   *)
UpsertProposed(p) ==
    /\ pc[p].at = "exec"
    /\ pc[p].id # 0
    /\ ~Blocked(p, KeyOf(Proposed(p)))
    /\ pc' = [pc EXCEPT ![p] =
                Txn("exec", pc[p].order, pc[p].i + 1, 0,
                    pc[p].keys \cup {KeyOf(Proposed(p))},
                    pc[p].writes \cup
                        {x \in UpsertRow(edw, Proposed(p), pc[p].id) :
                            KeyOf(x) = KeyOf(Proposed(p))
                            /\ (x \notin edw \/ x.RecordID = pc[p].id)})]
    /\ UNCHANGED <<whVars, frameVars, log, files>>

(* conn.commit() after the statement has proposed every staging row. *)
Commit(p) ==
    /\ pc[p].at = "exec"
    /\ pc[p].i > Len(stg)
    /\ edw' = Committed(edw, pc[p].writes)
    /\ pc' = [pc EXCEPT ![p] = Txn("done", pc[p].order, pc[p].i, 0, {}, {})]
    /\ UNCHANGED <<stg, edwSeq, last, frameVars, log, files>>

(* Each of the two waits for a key the other holds: PostgreSQL ends one of  *)
(* them with "deadlock detected", which cursor.execute raises.              *)
Deadlock(p) ==
    /\ pc[p].at = "exec"
    /\ pc[p].id # 0
    /\ \E q \in Runs \ {p} :
          /\ pc[q].at = "exec"
          /\ pc[q].id # 0
          /\ KeyOf(Proposed(p)) \in pc[q].keys
          /\ KeyOf(Proposed(q)) \in pc[p].keys
    /\ RolledBack(p)
    /\ UNCHANGED <<whVars, frameVars, files>>

ConcNext ==
    \E p \in Runs :
        \/ \E dbOk \in BOOLEAN : \E order \in Orders(Len(stg)) :
              Connect(p, dbOk, order)
        \/ NextVal(p)
        \/ UpsertProposed(p)
        \/ Commit(p)
        \/ Deadlock(p)

SpecConcurrent == ConcInit /\ [][ConcNext]_vars

----------------------------------------------------------------------------
(* The tables a run of main may find: at most one staged row and at most    *)
(* one enterprise row.                                                      *)
MainInit ==
    /\ stg \in {<<>>} \cup {<<c>> : c \in {x \in Candidates : ChecksOk(x)}}
    /\ edw \in {e \in InitEdwSets : Cardinality(e) <= 1}
    /\ edwSeq = MaxInitEdw
    /\ last = [op |-> "init", ok |-> TRUE, edw0 |-> edw, twice |-> FALSE]
    /\ extracted = EmptyFrame
    /\ transformed = EmptyFrame
    /\ aggregated = EmptyFrame
    /\ pc = "start"
    /\ log = <<>>
    /\ files = {}

MainNext ==
    \/ MainStart
    \/ MainExtract
    \/ MainSaveExtracted
    \/ MainTransform
    \/ MainSaveTransformed
    \/ MainLoad
    \/ MainMove
    \/ MainAggregate
    \/ MainSaveAggregated
    \/ MainReport
    \/ MainFinish

SpecMain == MainInit /\ [][MainNext]_vars


----------------------------------------------------------------------------
(* Claims about the merge. *)

StagedKeys == {KeyOf(r) : r \in Range(stg)}

MergedOk == last.op = "move" /\ last.ok

(* C1: a successful merge that directly follows a successful merge of the   *)
(* same staging content leaves the enterprise table exactly as the first    *)
(* one left it: same rows, same values, same row count.                     *)
C1_MergeIdempotent ==
    (MergedOk /\ last.twice) => edw = last.edw0

C1_Witness ==
    /\ MergedOk /\ last.twice
    /\ Len(stg) >= 2
    /\ \E x \in edw : x.RecordID <= MaxInitEdw /\ KeyOf(x) \in StagedKeys

(* C2: after a successful merge every staged key has exactly one enterprise *)
(* row, carrying the staged values; a key that existed is overwritten in    *)
(* place, a missing key is inserted, the row count grows by the number of   *)
(* inserted keys only, and rows of other keys are unchanged.                *)
C2_UpsertResult ==
    MergedOk =>
        /\ \A r \in Range(stg) :
              /\ Cardinality({x \in edw : KeyOf(x) = KeyOf(r)}) = 1
              /\ \A x \in edw : KeyOf(x) = KeyOf(r) => ValsOf(x) = ValsOf(r)
        /\ \A x \in last.edw0 : KeyOf(x) \notin StagedKeys => x \in edw
        /\ \A x \in edw : KeyOf(x) \notin StagedKeys => x \in last.edw0
        /\ Cardinality(edw) = Cardinality(last.edw0)
              + Cardinality(StagedKeys \ {KeyOf(x) : x \in last.edw0})

C2_Witness ==
    /\ MergedOk
    /\ \E r \in Range(stg), x \in last.edw0 :
          KeyOf(x) = KeyOf(r) /\ ValsOf(x) # ValsOf(r)
    /\ \E r \in Range(stg) : \A x \in last.edw0 : KeyOf(x) # KeyOf(r)

(* C3: the enterprise table never holds two rows of one (symbol, date), and *)
(* a merge, failed or not, keeps the RecordID of every row it found.        *)
C3_KeyUnique ==
    /\ \A x, y \in edw : KeyOf(x) = KeyOf(y) => x = y
    /\ last.op = "move" =>
          \A x \in last.edw0 :
              \E y \in edw : KeyOf(y) = KeyOf(x) /\ y.RecordID = x.RecordID

C3_Witness ==
    /\ MergedOk
    /\ \E x \in last.edw0, y \in edw :
          /\ KeyOf(x) = KeyOf(y)
          /\ x.RecordID = y.RecordID
          /\ ValsOf(x) # ValsOf(y)

----------------------------------------------------------------------------
(* Claims about transform_data. *)

Transformed == pc = "transformed" /\ ~IsEmpty(transformed)

(* The rows before row i that carry i's symbol. *)
EarlierOfSymbol(rows, i) == {j \in 1..(i - 1) : rows[j].Symbol = rows[i].Symbol}

(* Row j directly precedes row i within their symbol. *)
Precedes(rows, j, i) ==
    /\ j \in EarlierOfSymbol(rows, i)
    /\ \A m \in EarlierOfSymbol(rows, i) : m <= j

(* The output holds the normalised input rows, each as often as the input. *)
SameRows(rawRows, rows) ==
    \E p \in [1..Len(rows) -> 1..Len(rawRows)] :
        /\ \A i, j \in 1..Len(rows) : p[i] = p[j] => i = j
        /\ \A i \in 1..Len(rows) :
              /\ rows[i].Symbol = Upper(rawRows[p[i]].Symbol)
              /\ rows[i].Date = rawRows[p[i]].Date.v
              /\ rows[i].ClosePrice = ToNumeric(rawRows[p[i]].ClosePrice)

(* C9 as claimed: per symbol, exactly the first chronological row has a     *)
(* missing DailyReturn and every later row a numeric one.                   *)
C9_Claimed ==
    Transformed =>
        \A i \in 1..Len(transformed.rows) :
            (transformed.rows[i].DailyReturn.k = "num")
                <=> (EarlierOfSymbol(transformed.rows, i) # {})

(* C9 as amended: the output is the input in date order; per symbol the     *)
(* first row has a missing DailyReturn; a later row whose close and whose   *)
(* preceding same-symbol close are numbers, the preceding one not zero, has *)
(* (close - previous close) / previous close against that row, whatever the *)
(* order and interleaving of the input.                                     *)
C9_ReturnSeries ==
    Transformed =>
        LET rows == transformed.rows
        IN  /\ Len(rows) = Len(extracted.rows)
            /\ SameRows(extracted.rows, rows)
            /\ \A i, j \in 1..Len(rows) : i < j => rows[i].Date <= rows[j].Date
            /\ \A i \in 1..Len(rows) :
                  /\ EarlierOfSymbol(rows, i) = {} => rows[i].DailyReturn = NaNRet
                  /\ \A j \in 1..Len(rows) :
                        ( /\ Precedes(rows, j, i)
                          /\ ~rows[i].ClosePrice.nan
                          /\ ~rows[j].ClosePrice.nan
                          /\ rows[j].ClosePrice.v # 0 )
                        => rows[i].DailyReturn =
                             Rat(rows[i].ClosePrice.v - rows[j].ClosePrice.v,
                                 rows[j].ClosePrice.v)

(* Two rows of one symbol around a row of another, given latest first and   *)
(* with mixed spelling: the last row's return is taken against the first.   *)
C9_Witness ==
    /\ Transformed
    /\ Len(transformed.rows) = 3
    /\ transformed.rows[1].Symbol = transformed.rows[3].Symbol
    /\ transformed.rows[2].Symbol # transformed.rows[1].Symbol
    /\ transformed.rows[1].DailyReturn = NaNRet
    /\ transformed.rows[2].DailyReturn = NaNRet
    /\ transformed.rows[3].DailyReturn = Rat(1, 1)
    /\ transformed.rows[2].ClosePrice = Num(2)
    /\ extracted.rows[1].Date.v > extracted.rows[3].Date.v
    /\ extracted.rows[1].Symbol # Upper(extracted.rows[1].Symbol)

----------------------------------------------------------------------------
(* Claims about aggregate_data. *)

Aggregated == pc = "aggregated" /\ ~IsEmpty(aggregated)

(* The input rows of a symbol, and those with a DailyReturn that is not missing. *)
RowsOf(sym) == {i \in 1..Len(transformed.rows) : transformed.rows[i].Symbol = sym}

NumericOf(sym) == {i \in RowsOf(sym) : transformed.rows[i].DailyReturn.k # "nan"}

FiniteOf(sym) == \A i \in RowsOf(sym) : transformed.rows[i].DailyReturn.k # "inf"

(* C10 as claimed: volatility is undefined for a symbol with fewer than 2   *)
(* non-missing returns and a non-negative number for one with at least 2.   *)
C10_Claimed ==
    Aggregated =>
        \A i \in 1..Len(aggregated.rows) :
            LET a == aggregated.rows[i]
            IN  /\ Cardinality(NumericOf(a.symbol)) < 2 => a.volatilityindex.k = "nan"
                /\ Cardinality(NumericOf(a.symbol)) >= 2 =>
                      a.volatilityindex.k = "num" /\ a.volatilityindex.n >= 0

(* C10 as amended: every symbol of the input has one summary; volatility is *)
(* undefined for a symbol with fewer than 2 rows; for one with at least 2   *)
(* rows and finite returns it is a non-negative number, a missing return    *)
(* counting as the observation 0; for two rows with returns a and b (after  *)
(* the fill) its square is (a - b)^2 / 2.                                   *)
C10_Volatility ==
    Aggregated =>
        /\ \A j \in 1..Len(transformed.rows) :
              Cardinality({i \in 1..Len(aggregated.rows) :
                  aggregated.rows[i].symbol = transformed.rows[j].Symbol}) = 1
        /\ \A i \in 1..Len(aggregated.rows) :
              LET a == aggregated.rows[i]
                  n == Cardinality(RowsOf(a.symbol))
              IN  /\ n >= 1
                  /\ n < 2 => a.volatilityindex = NaNRet
                  /\ (n >= 2 /\ FiniteOf(a.symbol)) =>
                        /\ a.volatilityindex.k = "num"
                        /\ a.volatilityindex.n >= 0
                        /\ a.volatilityindex.d > 0
                  /\ \A j, m \in RowsOf(a.symbol) :
                        (n = 2 /\ j < m /\ FiniteOf(a.symbol)) =>
                          LET x == FillNa(transformed.rows[j].DailyReturn)
                              y == FillNa(transformed.rows[m].DailyReturn)
                          IN  a.volatilityindex =
                                RDivInt(RMul(RSub(x, y), RSub(x, y)), 2)

(* A symbol with the two returns [missing, 1]: its volatility is defined,   *)
(* the square root of 1/2.                                                  *)
C10_Witness ==
    /\ Aggregated
    /\ \E i \in 1..Len(aggregated.rows) :
          LET a == aggregated.rows[i]
          IN  /\ Cardinality(RowsOf(a.symbol)) = 2
              /\ Cardinality(NumericOf(a.symbol)) = 1
              /\ \E j \in RowsOf(a.symbol) :
                    transformed.rows[j].DailyReturn = Rat(1, 1)
              /\ a.volatilityindex = Rat(1, 2)
              /\ a.dailyreturn = Rat(1, 2)

----------------------------------------------------------------------------
(* Claims about the pipeline driver. *)

Logged(tag) == \E i \in 1..Len(log) : log[i] = tag

(* C4 as claimed: a run that logs "ETL pipeline completed successfully"     *)
(* (taken here with a merge that did not fail) has staged every row of its  *)
(* transformed batch, and the enterprise table holds every (symbol, date)   *)
(* of the batch with the batch's values.                                    *)
C4_Claimed ==
    (Logged("success") /\ ~Logged("merge_error")) =>
        \A i \in 1..Len(transformed.rows) :
            LET w == WRowOf(transformed.rows[i])
            IN  /\ \E r \in Range(stg) : r = w
                /\ \E x \in edw : KeyOf(x) = KeyOf(w) /\ ValsOf(x) = ValsOf(w)

(* C5 as claimed: a stage with an empty or failed result ends the run as    *)
(* failed: no later stage runs and success is not logged; in particular an  *)
(* empty aggregation result is never followed by the success message.       *)
C5_Claimed ==
    /\ Logged("transformation_failed") =>
          ~Logged("load") /\ ~Logged("move") /\ ~Logged("aggregate")
    /\ Logged("merge_error") => ~Logged("aggregate")
    /\ Logged("aggregation_failed") => ~Logged("success")
    /\ Logged("success") =>
          /\ ~IsEmpty(transformed)
          /\ ~IsEmpty(aggregated)
          /\ last.op = "move" /\ last.ok

(* C6 as claimed: the merge starts only after the aggregation has completed *)
(* with a non-empty result.                                                 *)
C6_Claimed ==
    Logged("move") => Logged("aggregate") /\ ~IsEmpty(aggregated)

StageTags ==
    <<"started", "schemas", "extract", "transform", "load", "move", "aggregate",
      "success">>

IsStageTag(t) == \E i \in 1..Len(StageTags) : StageTags[i] = t

(* C6 as amended: the stages of a run start in the order schema setup,      *)
(* extraction, transformation, load, merge, aggregation, success, each at   *)
(* most once; the merge starts only after a non-empty transformation whose  *)
(* file was written; the aggregation starts only after the merge returned;  *)
(* success is logged only after the aggregation ran.                        *)
C6_StageOrder ==
    LET stages == SelectSeq(log, IsStageTag)
    IN  /\ Len(stages) <= Len(StageTags)
        /\ \A i \in 1..Len(stages) : stages[i] = StageTags[i]
        /\ Logged("move") => ~IsEmpty(transformed) /\ "transformed_data" \in files
        /\ Logged("aggregate") => last.op = "move"
        /\ Logged("success") => Logged("aggregate")

C6_Witness ==
    /\ pc = "done"
    /\ SelectSeq(log, IsStageTag) = StageTags
    /\ last.op = "move" /\ last.ok /\ edw # last.edw0
    /\ ~IsEmpty(aggregated)
    /\ "aggregated_data" \in files

(* The transformation ran on a batch that lacks a required column. *)
SchemaFailure ==
    Logged("transform") /\ ~(ExpectedColumns \subseteq extracted.cols)

NoDownstream ==
    /\ IsEmpty(transformed)
    /\ Logged("transformation_failed")
    /\ ~Logged("load") /\ ~Logged("move") /\ ~Logged("aggregate")
    /\ ~Logged("success")
    /\ IsEmpty(aggregated)
    /\ last.op = "init" /\ edw = last.edw0

(* C7 as claimed: after a schema failure no downstream stage runs and the   *)
(* run has written no file and no warehouse row.                            *)
C7_Claimed ==
    SchemaFailure => NoDownstream /\ files = {}

(* C7 as amended: after a schema failure no downstream stage runs, no       *)
(* transformed or aggregated file and no warehouse row is written; the only *)
(* file the run can have written is the extracted-data file, which main     *)
(* saves before the transformation.                                         *)
C7_SchemaFailure ==
    SchemaFailure => NoDownstream /\ files \subseteq {"extracted_stock_data"}

C7_Witness ==
    /\ SchemaFailure
    /\ pc = "done"
    /\ files = {"extracted_stock_data"}
    /\ Len(extracted.rows) = 2

(* C8 as claimed: a failed merge leaves the enterprise table as it was, and *)
(* the run ends as failed: it never logs success.                           *)
C8_Claimed ==
    Logged("merge_error") =>
        /\ edw = last.edw0
        /\ ~Logged("success")


----------------------------------------------------------------------------
(* C11: the trailing moving averages.                                       *)

(* The closes of the input rows at the positions S are all numbers, and     *)
(* their sum.                                                               *)
ClosesNumeric(S) == \A i \in S : ~transformed.rows[i].ClosePrice.nan

RECURSIVE SumClose(_)
SumClose(S) ==
    IF S = {} THEN 0
    ELSE LET i == CHOOSE j \in S : TRUE
         IN  transformed.rows[i].ClosePrice.v + SumClose(S \ {i})

(* The w rows of a symbol that come last in the input's row order, and the  *)
(* rows of the symbol that have fewer than w rows of a later date.          *)
LastInFrame(sym, w) ==
    {i \in RowsOf(sym) : Cardinality({j \in RowsOf(sym) : j > i}) < w}

LatestByDate(sym, w) ==
    {i \in RowsOf(sym) :
        Cardinality({j \in RowsOf(sym) :
            transformed.rows[j].Date > transformed.rows[i].Date}) < w}

DateSorted(sym) ==
    \A i, j \in RowsOf(sym) :
        i < j => transformed.rows[i].Date < transformed.rows[j].Date

(* The average a reports for the window w. *)
MovingAvgOf(a, w) == IF w = Window5 THEN a.movingavg5day ELSE a.movingavg10day

(* C11 as claimed: a symbol with fewer than 5 (10) rows has no 5-day        *)
(* (10-day) moving average, and one with at least 5 (10) rows, all closes   *)
(* numbers, has the mean of the closes of its 5 (10) rows of the latest     *)
(* dates, whatever the row order of the input.                              *)
C11_Claimed ==
    Aggregated =>
        \A i \in 1..Len(aggregated.rows) : \A w \in {Window5, Window10} :
            LET a == aggregated.rows[i]
                n == Cardinality(RowsOf(a.symbol))
            IN  /\ n < w => MovingAvgOf(a, w) = NaNRet
                /\ (n >= w /\ ClosesNumeric(RowsOf(a.symbol))) =>
                      MovingAvgOf(a, w) =
                          RDivInt(Rat(SumClose(LatestByDate(a.symbol, w)), 1), w)

(* C11 as amended: a symbol with fewer than 5 (10) rows has no 5-day        *)
(* (10-day) moving average; one with at least 5 (10) rows has the mean of   *)
(* the closes of its last 5 (10) rows in the row order of the input, and    *)
(* none when one of these closes is missing; these rows are the 5 (10) of   *)
(* the latest dates when the symbol's rows come in increasing date order.   *)
C11_MovingAvg ==
    Aggregated =>
        \A i \in 1..Len(aggregated.rows) : \A w \in {Window5, Window10} :
            LET a == aggregated.rows[i]
                n == Cardinality(RowsOf(a.symbol))
                lastW == LastInFrame(a.symbol, w)
            IN  /\ n < w => MovingAvgOf(a, w) = NaNRet
                /\ (n >= w /\ ClosesNumeric(lastW)) =>
                      /\ Cardinality(lastW) = w
                      /\ MovingAvgOf(a, w) = RDivInt(Rat(SumClose(lastW), 1), w)
                /\ (n >= w /\ ~ClosesNumeric(lastW)) => MovingAvgOf(a, w) = NaNRet
                /\ (n >= w /\ ClosesNumeric(lastW) /\ DateSorted(a.symbol)) =>
                      MovingAvgOf(a, w) =
                          RDivInt(Rat(SumClose(LatestByDate(a.symbol, w)), 1), w)

(* A symbol of more than 10 rows in date order, followed by a row of        *)
(* another symbol, whose two averages are numbers that differ from each     *)
(* other and from the mean of its first 5 closes.                           *)
C11_Witness ==
    /\ Aggregated
    /\ \E i \in 1..Len(aggregated.rows) :
          LET a == aggregated.rows[i]
          IN  /\ Cardinality(RowsOf(a.symbol)) > Window10
              /\ DateSorted(a.symbol)
              /\ transformed.rows[Len(transformed.rows)].Symbol # a.symbol
              /\ a.movingavg5day.k = "num"
              /\ a.movingavg10day.k = "num"
              /\ a.movingavg5day # a.movingavg10day
              /\ a.movingavg5day #
                    RDivInt(Rat(SumClose({j \in RowsOf(a.symbol) :
                        Cardinality({m \in RowsOf(a.symbol) : m < j}) < Window5}), 1),
                            Window5)


----------------------------------------------------------------------------
(* C13: parse tolerance of transform_data.                                  *)

(* The rows of the input batch whose date parses. *)
DateParses == {i \in 1..Len(extracted.rows) : extracted.rows[i].Date.ok}

(* Output row t is input row r after the column conversions. *)
Converted(r, t) ==
    LET c == NormRow(r) IN \A fld \in DOMAIN c : t[fld] = c[fld]

(* C13 as claimed: for a batch that has all required columns, transform_data *)
(* returns exactly the rows whose date parses, each with its unparsable      *)
(* numeric fields missing; a row whose date does not parse is dropped alone. *)
C13_Claimed ==
    (pc = "transformed" /\ ExpectedColumns \subseteq extracted.cols) =>
        /\ Len(transformed.rows) = Cardinality(DateParses)
        /\ \A i \in DateParses :
              \E j \in 1..Len(transformed.rows) :
                  Converted(extracted.rows[i], transformed.rows[j])


----------------------------------------------------------------------------
(* C12: two concurrent merges.                                              *)

Ended(p) == pc[p].at \in {"done", "failed"}

Final == \A p \in Runs : Ended(p)

(* The keys and the five value fields of a table, without the RecordIDs. *)
KeyVals(e) == {[key |-> KeyOf(x), vals |-> ValsOf(x)] : x \in e}

(* The enterprise tables that the two merges leave when one runs after the  *)
(* other, for every order in which each SELECT may return the staging rows. *)
SerialStates ==
    {UpsertAll(UpsertAll(last.edw0, Permute(stg, o1), 1, Len(stg)),
               Permute(stg, o2), 1 + Len(stg), Len(stg)) :
        o1 \in Orders(Len(stg)), o2 \in Orders(Len(stg))}

(* C12 as claimed: when both concurrent merges have committed, the          *)
(* enterprise table is one that the two merges leave when run one after the *)
(* other.                                                                   *)
C12_Claimed ==
    (Final /\ \A p \in Runs : pc[p].at = "done") => edw \in SerialStates

(* C12 as amended: no two open transactions hold a written row of the same  *)
(* key, the enterprise table has one row per key and one per RecordID, and  *)
(* when both runs have ended it is unchanged if neither committed and       *)
(* otherwise equal, in keys and value fields, to a table the two merges     *)
(* leave when run one after the other, every staged key carrying the five   *)
(* values of its staging row.                                               *)
C12_Serializable ==
    /\ \A p, q \in Runs :
          (p # q /\ pc[p].at = "exec" /\ pc[q].at = "exec") =>
              pc[p].keys \cap pc[q].keys = {}
    /\ \A x, y \in edw :
          (KeyOf(x) = KeyOf(y) \/ x.RecordID = y.RecordID) => x = y
    /\ Final =>
          IF \E p \in Runs : pc[p].at = "done"
          THEN /\ KeyVals(edw) \in {KeyVals(e) : e \in SerialStates}
               /\ \A i \in 1..Len(stg) :
                     \E x \in edw : /\ KeyOf(x) = KeyOf(stg[i])
                                    /\ ValsOf(x) = ValsOf(stg[i])
          ELSE edw = last.edw0

(* Both merges have committed after running interleaved: the two staged     *)
(* keys were inserted with RecordIDs that are not consecutive, the other    *)
(* run having drawn the value between them.                                 *)
C12_Witness ==
    /\ Final
    /\ \A p \in Runs : pc[p].at = "done"
    /\ last.edw0 = {}
    /\ \E x, y \in edw :
          /\ KeyOf(x) # KeyOf(y)
          /\ x.RecordID + 2 <= y.RecordID

=============================================================================
